---- MODULE Spec2Model ----
(***************************************************************************)
(* Model of the wsh interactive client (src/wsh/main.go, runWSH) and of    *)
(* the Connection wrapper it uses (src/wshutils/connection.go).            *)
(*                                                                         *)
(* The session runs five goroutines over one Connection:                   *)
(*   main  - runWSH itself: dial, raw mode, initial resize, TERM export,   *)
(*           then the stdin loop (input pump) and the deferred cleanup     *)
(*   sig   - the signal goroutine (SIGINT / SIGWINCH)                      *)
(*   watch - the 1 s resize watcher                                        *)
(*   hb    - the 1 s idle-heartbeat poller                                 *)
(*   out   - the receive loop (output pump)                                *)
(* Time is counted in whole seconds, the period of both tickers, and kept  *)
(* as ages: the liveness clock is the time since lastSendTime, and the     *)
(* transport knows the time since its last Cmd or Resize frame and since    *)
(* its last Heartbeat frame; ages stop growing at Cap, one second more      *)
(* than the heartbeat interval.                                            *)
(***************************************************************************)
EXTENDS Integers, Sequences, FiniteSets, TLC

\* ---------------------------------------------------------------- bounds
MaxWire == 5            \* frames the transport accepts before senders block
MaxEvents == 2          \* events the environment produces in one run
HeartbeatInterval == 1  \* --heartbeat-interval, in seconds
MaxTail == 3            \* characters after the scheme in an argument
MaxFileLen == 3         \* bytes in the longest file that is encoded
MaxChunks == 2          \* full chunks in the longest encoded blob

\* ------------------------------------------------------------- constants
Tasks == {"main", "sig", "watch", "hb", "out"}
Senders == {"main", "sig", "watch", "hb"}

F12 == <<27, 91, 50, 52, 126>>
F5 == <<27, 91, 49, 53, 126>>
CtrlC == <<3>>
\* "export TERM=xterm-256color\n"
TermExport == <<101, 120, 112, 111, 114, 116, 32, 84, 69, 82, 77, 61, 120, 116,
                101, 114, 109, 45, 50, 53, 54, 99, 111, 108, 111, 114, 10>>

\* blocks one os.Stdin.Read can return
Blocks == {F12, <<97>>, F12 \o <<97>>}
\* terminal geometries <<cols, rows>> term.GetSize can report
Geoms == {<<80, 24>>, <<100, 30>>}
FallbackRows == 47
FallbackCols == 196
\* ages stop growing here: older than any age the heartbeat compares
Cap == HeartbeatInterval + 1
Older(age) == IF age < Cap THEN age + 1 ELSE Cap

Signals == {"SIGINT", "SIGWINCH"}

\* ---------------------------------------------------------------- messages
CmdMsg(bytes) == [type |-> "cmd", cmd |-> bytes]
ResizeMsg(rows, cols) == [type |-> "resize", rows |-> rows, cols |-> cols]
HeartbeatMsg == [type |-> "heartbeat", data |-> <<>>]
NoMsg == [type |-> "none"]

VARIABLES
    pc,            \* control point of every goroutine
    stage,         \* which send of runWSH the main goroutine is in
    msg,           \* the value each sender passed to SendJSON
    connState,     \* "none", "open", "broken" (transport error), "closed"
    closeCalls,    \* number of calls of Connection.Close
    termMode,      \* "cooked" (the prior mode) or "raw"
    modeChanges,   \* number of terminal-mode changes made by this run
    resetEmitted,  \* resetTerminal has printed its sequences
    proc,          \* "running" or "exited"
    exitKind,      \* how the process exited
    timeSinceLastSend, \* time.Since(lastSendTime), the liveness clock as an age
    due,           \* a tick is waiting in the ticker channel of watch / hb
    geom,          \* geometry of the local terminal
    stdoutTTY,     \* term.GetSize on stdout succeeds
    lastGeom,      \* lastCols, lastRows of the resize watcher
    sigs,          \* the signal channel (capacity 1)
    wire,          \* frames written to the transport
    garbled,       \* some frame on the wire is not one whole message
    otherAge,      \* time since the last Cmd or Resize frame was written
    hbAge,         \* time since the last Heartbeat frame was written
    inWrite,       \* goroutines inside conn.WriteMessage
    overlap,       \* goroutines whose write overlapped another write
    sendFailed,    \* goroutines one of whose SendJSON calls returned an error
    issued,        \* number of SendJSON calls each goroutine has made
    order,         \* for every frame of the wire, <<task, number of its call>>
    events,        \* events the environment has produced so far
    arg,           \* the positional argument naming the target
    config,        \* what LoadConfig finds at configPath
    targetURL,     \* the URL handed to NewConnection
    lookups,       \* number of FindEndpoint calls
    wpc,           \* control point of main of the file-transfer client
    wi,            \* index of the loop that main of the file-transfer client is in
    stat,          \* what os.Stat returns for the local file
    fileSize,      \* size of the local file in bytes
    force,         \* --force
    warned,        \* the large-file warning was printed
    encodedLen,    \* len(encodedData), -1 before encodeFile returned
    closer,        \* the delayed-close goroutine: "off", "sleeping", "done"
    dials,         \* number of NewConnection calls of the file-transfer client
    fileData,      \* the bytes of the local file
    gw,            \* the gzip.Writer and the gzipBuffer it writes to
    encoder,       \* the base64 encoder and the base64Buffer it writes to
    remoteFile,    \* what the remote pipeline makes of the encoded text
    mutex,         \* lastSendMutex: the goroutine that holds it, or "none"
    lastSendTime,  \* lastSendTime on the monotonic clock, 0 the zero time.Time
    now,           \* the monotonic clock time.Now() reads
    stamp,         \* the value of time.Now() each goroutine is about to store
    lost,          \* signals signal.Notify dropped, each with the one it found waiting
    buf,           \* buf[:n], the block of the last os.Stdin.Read
    encodedData    \* the text encodeFile returned

vars == <<pc, stage, msg, connState, closeCalls, termMode, modeChanges,
          resetEmitted, proc, exitKind, timeSinceLastSend, due, geom, stdoutTTY,
          lastGeom, sigs, wire, garbled, otherAge, hbAge, inWrite, overlap, sendFailed,
          issued, order, events, arg, config, targetURL, lookups, wpc, wi, stat,
          fileSize, force, warned, encodedLen, closer, dials, fileData, gw,
          encoder, remoteFile, mutex, lastSendTime, now, stamp, lost, buf,
          encodedData>>

connVars == <<connState, closeCalls>>
termVars == <<termMode, modeChanges, resetEmitted>>
procVars == <<proc, exitKind>>
envVars == <<geom, stdoutTTY>>
wireVars == <<wire, order, garbled, otherAge, hbAge>>
\* the command line and its resolution
cliVars == <<arg, config, targetURL, lookups>>
\* the state of the file-transfer client
wcpVars == <<wpc, wi, stat, fileSize, force, warned, encodedLen, closer, dials>>
\* the state of encodeFile and of the remote decoding
encVars == <<fileData, gw, encoder, remoteFile>>
\* the state only the interactive session has
sessionVars == <<pc, stage, msg, termVars, timeSinceLastSend, due, envVars,
                 lastGeom, sigs, order, garbled, otherAge, hbAge, inWrite,
                 overlap>>

\* the liveness clock step by step
lockVars == <<mutex, lastSendTime, now, stamp>>
\* what the steps of the session and of the transfer leave alone
extVars == <<lockVars, lost, buf, encodedData>>

Running == proc = "running"

\* lastSendMutex is free, lastSendTime has its zero value, no signal was
\* dropped and nothing was read from stdin
Pristine ==
    /\ mutex = "none"
    /\ lastSendTime = 0
    /\ now = 0
    /\ stamp = [t \in Senders |-> 0]
    /\ lost = {}
    /\ buf = <<>>

\* nothing has been encoded
NoEncoding ==
    /\ fileData = <<>>
    /\ gw = [out |-> <<>>, pending |-> <<>>, header |-> FALSE,
             crc |-> [i \in 1..32 |-> 1], size |-> 0]
    /\ encoder = [out |-> <<>>, pending |-> <<>>]
    /\ remoteFile = [ok |-> FALSE, data |-> <<>>]

Init ==
    /\ pc = [t \in Tasks |-> IF t = "main" THEN "dial" ELSE "off"]
    /\ stage = "resize0"
    /\ msg = [t \in Senders |-> NoMsg]
    /\ connState = "none"
    /\ closeCalls = 0
    /\ termMode = "cooked"
    /\ modeChanges = 0
    /\ resetEmitted = FALSE
    /\ proc = "running"
    /\ exitKind = "none"
    /\ timeSinceLastSend = Cap
    /\ due = [t \in {"watch", "hb"} |-> FALSE]
    /\ geom = <<80, 24>>
    /\ stdoutTTY \in BOOLEAN
    /\ lastGeom = <<0, 0>>
    /\ sigs = "none"
    /\ wire = <<>>
    /\ garbled = FALSE
    /\ otherAge = Cap
    /\ hbAge = Cap
    /\ inWrite = {}
    /\ overlap = {}
    /\ sendFailed = {}
    /\ issued = [t \in Senders |-> 0]
    /\ order = <<>>
    /\ events = 0
    /\ arg = <<>>
    /\ config = [ok |-> FALSE, endpoints |-> <<>>]
    /\ targetURL = <<>>
    /\ lookups = 0
    /\ wpc = "off"
    /\ wi = 0
    /\ stat = "ok"
    /\ fileSize = 0
    /\ force = FALSE
    /\ warned = FALSE
    /\ encodedLen = -1
    /\ encodedData = <<>>
    /\ Pristine
    /\ closer = "off"
    /\ dials = 0
    /\ NoEncoding

\* ------------------------------------------------------------ Connection
\* A Close that leaves the socket as it is.
CloseLeavesOpen(s) == s

\* Connection.Close: closes the socket; the result is ignored by every caller.
Close(s) == "closed"

\* Connection.ResizeTerm: the Resize built from term.GetSize, or 47x196.
ResizeTerm(ok, g) ==
    IF ok THEN ResizeMsg(g[2], g[1]) ELSE ResizeMsg(FallbackRows, FallbackCols)

\* A frame as the transport sees it.
Frame(t, m) == [task |-> t, msg |-> m]

\* utf8.DecodeRuneInString on the front of b: the number of bytes of the
\* encoded rune there, 0 when the bytes are no valid encoding.
Cont(b, i, lo, hi) == Len(b) >= i /\ b[i] >= lo /\ b[i] <= hi
RuneLen(b) ==
    IF b[1] < 128 THEN 1
    ELSE IF b[1] >= 194 /\ b[1] <= 223
      THEN IF Cont(b, 2, 128, 191) THEN 2 ELSE 0
    ELSE IF b[1] >= 224 /\ b[1] <= 239
      THEN IF /\ Cont(b, 2, IF b[1] = 224 THEN 160 ELSE 128,
                             IF b[1] = 237 THEN 159 ELSE 191)
              /\ Cont(b, 3, 128, 191)
             THEN 3 ELSE 0
    ELSE IF b[1] >= 240 /\ b[1] <= 244
      THEN IF /\ Cont(b, 2, IF b[1] = 240 THEN 144 ELSE 128,
                             IF b[1] = 244 THEN 143 ELSE 191)
              /\ Cont(b, 3, 128, 191)
              /\ Cont(b, 4, 128, 191)
             THEN 4 ELSE 0
    ELSE 0

\* U+FFFD, the replacement rune, in UTF-8
ReplacementRune == <<239, 191, 189>>

RECURSIVE CoerceUTF8(_)
\* The string a receiver decodes from the JSON string json.Marshal writes for
\* a Go string with the bytes b: every byte that is not part of a valid UTF-8
\* encoding is replaced by U+FFFD; the escapes are undone by the decoder.
CoerceUTF8(b) ==
    IF b = <<>> THEN <<>>
    ELSE IF RuneLen(b) = 0 THEN ReplacementRune \o CoerceUTF8(Tail(b))
    ELSE SubSeq(b, 1, RuneLen(b))
           \o CoerceUTF8(SubSeq(b, RuneLen(b) + 1, Len(b)))

\* json.Marshal(v) of a message of runWSH, as the message the receiver
\* decodes: the cmd string of a CmdMsg is coerced to valid UTF-8.
Marshal(m) ==
    IF m.type = "cmd" THEN [type |-> "cmd", cmd |-> CoerceUTF8(m.cmd)] ELSE m

\* Connection.SendJSON(m) called by goroutine t: json.Marshal and the entry
\* into conn.WriteMessage. SendJSON takes no lock: t enters whoever else is
\* inside.
SendJSON(t, m) ==
    /\ Len(wire) < MaxWire
    /\ pc' = [pc EXCEPT ![t] = "writing"]
    /\ msg' = [msg EXCEPT ![t] = Marshal(m)]
    /\ issued' = [issued EXCEPT ![t] = @ + 1]
    /\ inWrite' = inWrite \cup {t}
    /\ overlap' = IF inWrite # {} THEN overlap \cup inWrite \cup {t} ELSE overlap

\* A transport that hands over the newest frame first.
DeliverNewestFirst(w, f) == <<f>> \o w

\* conn.WriteMessage puts the frame on the transport behind the frames
\* written before it.
Deliver(w, f) == Append(w, f)

\* What conn.WriteMessage can do. On a socket that is closed or broken it
\* returns an error. A write that ran concurrently with another one is a data
\* race on the websocket writer: the frame comes out whole, comes out
\* corrupted, or the library panics.
WriteOutcomes(t) ==
    IF connState # "open" THEN {"error"}
    ELSE IF t \in overlap THEN {"ok", "corrupt", "panic"}
    ELSE {"ok"}

\* conn.WriteMessage returns. SendJSON hands the error to its caller, which
\* drops it and goes on to updateLastSendTime.
WriteMessage(t) ==
    /\ Running
    /\ pc[t] = "writing"
    /\ \E o \in WriteOutcomes(t) :
        /\ wire' = IF o \in {"ok", "corrupt"}
                     THEN Deliver(wire, Frame(t, msg[t])) ELSE wire
        /\ order' = IF o \in {"ok", "corrupt"}
                      THEN Deliver(order, <<t, issued[t]>>) ELSE order
        /\ garbled' = (garbled \/ o = "corrupt")
        /\ otherAge' = IF o \in {"ok", "corrupt"} /\ msg[t].type # "heartbeat"
                         THEN 0 ELSE otherAge
        /\ hbAge' = IF o \in {"ok", "corrupt"} /\ msg[t].type = "heartbeat"
                      THEN 0 ELSE hbAge
        /\ sendFailed' = IF o = "error" THEN sendFailed \cup {t} ELSE sendFailed
        /\ proc' = IF o = "panic" THEN "exited" ELSE proc
        /\ exitKind' = IF o = "panic" THEN "panic" ELSE exitKind
    /\ pc' = [pc EXCEPT ![t] = "update"]
    /\ inWrite' = inWrite \ {t}
    /\ overlap' = overlap \ {t}
    /\ UNCHANGED <<stage, msg, issued, connVars, termVars, timeSinceLastSend, due,
                   envVars, lastGeom, sigs, events>>
    /\ UNCHANGED <<cliVars, wcpVars, encVars>>
    /\ UNCHANGED extVars

\* ------------------------------------------------------ updateLastSendTime
\* The stage of runWSH that follows each of its sends: the initial Resize is
\* followed by the TERM export, the TERM export by the stdin loop.
NextStageSkipsTerm(st) == "input"

NextStage(st) == IF st = "resize0" THEN "term" ELSE "input"

\* updateLastSendTime (Lock; lastSendTime = time.Now(); Unlock) as called by
\* runWSH, which then goes on to its next statement.
updateLastSendTimeMain ==
    /\ Running
    /\ pc["main"] = "update"
    /\ timeSinceLastSend' = 0
    /\ stage' = NextStage(stage)
    /\ IF NextStage(stage) = "term"
         THEN SendJSON("main", CmdMsg(TermExport))
         ELSE /\ pc' = [pc EXCEPT !["main"] = "read"]
              /\ msg' = [msg EXCEPT !["main"] = NoMsg]
              /\ UNCHANGED <<issued, inWrite, overlap>>
    /\ UNCHANGED <<connVars, termVars, procVars, due, envVars, lastGeom,
                   sigs, wireVars, sendFailed, events>>
    /\ UNCHANGED <<cliVars, wcpVars, encVars>>
    /\ UNCHANGED extVars

\* updateLastSendTime as called by the signal, watcher and heartbeat
\* goroutines, which then wait for their next event; the watcher first sets
\* lastCols, lastRows = cols, rows.
updateLastSendTime(t) ==
    /\ Running
    /\ pc[t] = "update"
    /\ timeSinceLastSend' = 0
    /\ pc' = [pc EXCEPT ![t] = "wait"]
    /\ lastGeom' = IF t = "watch" THEN <<msg[t].cols, msg[t].rows>> ELSE lastGeom
    /\ msg' = [msg EXCEPT ![t] = NoMsg]
    /\ UNCHANGED <<stage, issued, connVars, termVars, procVars, due,
                   envVars, sigs, wireVars, inWrite, overlap, sendFailed, events>>
    /\ UNCHANGED <<cliVars, wcpVars, encVars>>
    /\ UNCHANGED extVars

\* ------------------------------------------------------------------ runWSH
\* wshutils.NewConnection succeeds: the socket is open, runWSH goes on to
\* term.MakeRaw.
NewConnectionOk ==
    /\ Running
    /\ pc["main"] = "dial"
    /\ connState' = "open"
    /\ pc' = [pc EXCEPT !["main"] = "makeraw"]
    /\ UNCHANGED <<stage, msg, issued, closeCalls, termVars, procVars, timeSinceLastSend, due, envVars, lastGeom, sigs, wireVars, inWrite, overlap,
                   sendFailed, events>>
    /\ UNCHANGED <<cliVars, wcpVars, encVars>>
    /\ UNCHANGED extVars

\* The dial failing in a runWSH that entered raw mode before dialing.
NewConnectionFailInRawMode ==
    /\ Running
    /\ pc["main"] = "dial"
    /\ termMode' = "raw"
    /\ modeChanges' = modeChanges + 1
    /\ proc' = "exited"
    /\ exitKind' = "connect_error"
    /\ UNCHANGED <<pc, stage, msg, issued, connVars, resetEmitted, timeSinceLastSend, due,
                   envVars, lastGeom, sigs, wireVars, inWrite, overlap, sendFailed,
                   events>>
    /\ UNCHANGED <<cliVars, wcpVars, encVars>>
    /\ UNCHANGED extVars

\* wshutils.NewConnection fails: "Error: Failed to connect", os.Exit(1).
NewConnectionFail ==
    /\ Running
    /\ pc["main"] = "dial"
    /\ proc' = "exited"
    /\ exitKind' = "connect_error"
    /\ UNCHANGED <<pc, stage, msg, issued, connVars, termVars, timeSinceLastSend, due,
                   envVars, lastGeom, sigs, wireVars, inWrite, overlap, sendFailed,
                   events>>
    /\ UNCHANGED <<cliVars, wcpVars, encVars>>
    /\ UNCHANGED extVars

\* term.MakeRaw succeeds; the deferred restore is registered, the four
\* goroutines are started and runWSH makes its first send, conn.ResizeTerm().
MakeRawOk ==
    /\ Running
    /\ pc["main"] = "makeraw"
    /\ termMode' = "raw"
    /\ modeChanges' = modeChanges + 1
    /\ Len(wire) < MaxWire
    /\ pc' = [t \in Tasks |-> IF t = "main" THEN "writing" ELSE "wait"]
    /\ msg' = [msg EXCEPT !["main"] = ResizeTerm(stdoutTTY, geom)]
    /\ issued' = [issued EXCEPT !["main"] = @ + 1]
    /\ inWrite' = {"main"}
    /\ UNCHANGED <<stage, connVars, resetEmitted, procVars, timeSinceLastSend,
                   due, envVars, lastGeom, sigs, wireVars, overlap, sendFailed, events>>
    /\ UNCHANGED <<cliVars, wcpVars, encVars>>
    /\ UNCHANGED extVars

\* term.MakeRaw fails (stdin is no terminal): os.Exit(1).
MakeRawFail ==
    /\ Running
    /\ pc["main"] = "makeraw"
    /\ proc' = "exited"
    /\ exitKind' = "raw_error"
    /\ UNCHANGED <<pc, stage, msg, issued, connVars, termVars, timeSinceLastSend, due,
                   envVars, lastGeom, sigs, wireVars, inWrite, overlap, sendFailed,
                   events>>
    /\ UNCHANGED <<cliVars, wcpVars, encVars>>
    /\ UNCHANGED extVars

\* The force-quit test with the F5 sequence the first version of the client
\* reserved.
IsForceQuitF5(b) == b = F5

\* bytes.Equal(buf[:n], []byte{27, 91, 50, 52, 126})
IsForceQuit(b) == b = F12

\* os.Stdin.Read returns the block b: the force-quit block leads to
\* conn.Close(), any other block is sent as a Cmd.
ReadBlock(b) ==
    /\ Running
    /\ pc["main"] = "read"
    /\ buf' = b
    /\ IF IsForceQuit(b)
         THEN /\ pc' = [pc EXCEPT !["main"] = "f12_close"]
              /\ UNCHANGED <<msg, issued, inWrite, overlap>>
         ELSE SendJSON("main", CmdMsg(b))
    /\ UNCHANGED <<stage, connVars, termVars, procVars, timeSinceLastSend, due,
                   envVars, lastGeom, sigs, wireVars, sendFailed>>
    /\ UNCHANGED <<cliVars, wcpVars, encVars>>
    /\ UNCHANGED <<lockVars, lost, encodedData>>

\* The user types or pastes, as one of the events of a busy session.
StdinRead ==
    /\ events < MaxEvents
    /\ events' = events + 1
    /\ \E b \in Blocks : ReadBlock(b)

\* blocks of a user whose input is not only ASCII: a control byte, a
\* two-byte character, the first byte of one whose second byte comes with the
\* next read, bytes that are no UTF-8
InputBlocks == Blocks \cup {<<3>>, <<195, 169>>, <<195>>, <<169>>, <<97, 255>>}

\* os.Stdin.Read in a session in which nothing else happens
StdinReadAny ==
    /\ \E b \in InputBlocks : ReadBlock(b)
    /\ UNCHANGED events

\* os.Stdin.Read returns an error: runWSH returns, the deferred calls run.
StdinError ==
    /\ Running
    /\ pc["main"] = "read"
    /\ events < MaxEvents
    /\ events' = events + 1
    /\ pc' = [pc EXCEPT !["main"] = "defer_restore"]
    /\ UNCHANGED <<stage, msg, issued, connVars, termVars, procVars, timeSinceLastSend, due, envVars, lastGeom, sigs, wireVars, inWrite, overlap,
                   sendFailed>>
    /\ UNCHANGED <<cliVars, wcpVars, encVars>>
    /\ UNCHANGED extVars

\* A stdin loop that goes on reading after the force-quit close.
AfterForceQuitReadsOn == "read"

\* break: runWSH leaves the stdin loop and returns, its deferred calls run
AfterForceQuit == "defer_restore"

\* F12: conn.Close(); break
ForceQuitClose ==
    /\ Running
    /\ pc["main"] = "f12_close"
    /\ connState' = Close(connState)
    /\ closeCalls' = closeCalls + 1
    /\ pc' = [pc EXCEPT !["main"] = AfterForceQuit]
    /\ UNCHANGED <<stage, msg, issued, termVars, procVars, timeSinceLastSend, due,
                   envVars, lastGeom, sigs, wireVars, inWrite, overlap, sendFailed,
                   events>>
    /\ UNCHANGED <<cliVars, wcpVars, encVars>>
    /\ UNCHANGED extVars

\* The deferred func of runWSH: term.Restore(oldState), resetTerminal().
DeferRestore ==
    /\ Running
    /\ pc["main"] = "defer_restore"
    /\ termMode' = "cooked"
    /\ modeChanges' = modeChanges + 1
    /\ resetEmitted' = TRUE
    /\ pc' = [pc EXCEPT !["main"] = "defer_close"]
    /\ UNCHANGED <<stage, msg, issued, connVars, procVars, timeSinceLastSend, due,
                   envVars, lastGeom, sigs, wireVars, inWrite, overlap, sendFailed,
                   events>>
    /\ UNCHANGED <<cliVars, wcpVars, encVars>>
    /\ UNCHANGED extVars

\* defer conn.Close(), then runWSH and main return and the process ends.
DeferClose ==
    /\ Running
    /\ pc["main"] = "defer_close"
    /\ connState' = Close(connState)
    /\ closeCalls' = closeCalls + 1
    /\ pc' = [pc EXCEPT !["main"] = "returned"]
    /\ proc' = "exited"
    /\ exitKind' = "returned"
    /\ UNCHANGED <<stage, msg, issued, termVars, timeSinceLastSend, due, envVars,
                   lastGeom, sigs, wireVars, inWrite, overlap, sendFailed, events>>
    /\ UNCHANGED <<cliVars, wcpVars, encVars>>
    /\ UNCHANGED extVars

\* -------------------------------------------------------- signal goroutine
\* The OS delivers a signal; signal.Notify drops it when the channel is full.
SignalArrives ==
    /\ Running
    /\ pc["sig"] # "off"
    /\ sigs = "none"
    /\ events < MaxEvents
    /\ events' = events + 1
    /\ \E s \in Signals : sigs' = s
    /\ UNCHANGED <<pc, stage, msg, issued, connVars, termVars, procVars, timeSinceLastSend, due, envVars, lastGeom, wireVars, inWrite, overlap, sendFailed>>
    /\ UNCHANGED <<cliVars, wcpVars, encVars>>
    /\ UNCHANGED extVars

\* The OS delivers a signal while the one slot of the channel is taken:
\* signal.Notify does not block, the signal is dropped.
SignalDropped ==
    /\ Running
    /\ pc["sig"] # "off"
    /\ sigs # "none"
    /\ events < MaxEvents
    /\ events' = events + 1
    /\ \E s \in Signals : lost' = lost \cup {[sig |-> s, behind |-> sigs]}
    /\ UNCHANGED <<pc, stage, msg, issued, connVars, termVars, procVars,
                   timeSinceLastSend, due, envVars, lastGeom, sigs, wireVars,
                   inWrite, overlap, sendFailed>>
    /\ UNCHANGED <<cliVars, wcpVars, encVars, lockVars, buf, encodedData>>

\* SIGINT becomes Cmd{^C}, SIGWINCH becomes conn.ResizeTerm().
SignalMsg(s) == IF s = "SIGINT" THEN CmdMsg(CtrlC) ELSE ResizeTerm(stdoutTTY, geom)

\* for sig := range sigs: the translated message is sent.
SignalHandler ==
    /\ Running
    /\ pc["sig"] = "wait"
    /\ sigs # "none"
    /\ sigs' = "none"
    /\ SendJSON("sig", SignalMsg(sigs))
    /\ UNCHANGED <<stage, connVars, termVars, procVars, timeSinceLastSend, due,
                   envVars, lastGeom, wireVars, sendFailed, events>>
    /\ UNCHANGED <<cliVars, wcpVars, encVars>>
    /\ UNCHANGED extVars

\* ---------------------------------------------------------- resize watcher
\* A comparison that finds a change at every poll.
GeometryAlwaysChanged(g, last) == TRUE

\* cols != lastCols || rows != lastRows
GeometryChanged(g, last) == g[1] # last[1] \/ g[2] # last[2]

\* One tick of the watcher: term.GetSize (continue on error), compare with the
\* cache, send the Resize.
ResizeWatch ==
    /\ Running
    /\ pc["watch"] = "wait"
    /\ due["watch"]
    /\ due' = [due EXCEPT !["watch"] = FALSE]
    /\ IF stdoutTTY /\ GeometryChanged(geom, lastGeom)
         THEN SendJSON("watch", ResizeMsg(geom[2], geom[1]))
         ELSE UNCHANGED <<pc, msg, issued, inWrite, overlap>>
    /\ UNCHANGED <<stage, connVars, termVars, procVars, timeSinceLastSend,
                   envVars, lastGeom, sigs, wireVars, sendFailed, events>>
    /\ UNCHANGED <<cliVars, wcpVars, encVars>>
    /\ UNCHANGED extVars

\* ------------------------------------------------------------ idle heartbeat
HeartbeatDueAtInterval(elapsed) == elapsed >= HeartbeatInterval

\* timeSinceLastSend > time.Duration(heartbeatInterval)*time.Second
HeartbeatDue(elapsed) == elapsed > HeartbeatInterval

\* One tick of the heartbeat goroutine: timeSinceLastSend is read under the
\* lock, and a Heartbeat is sent when it exceeds the interval.
HeartbeatPoll ==
    /\ Running
    /\ pc["hb"] = "wait"
    /\ due["hb"]
    /\ due' = [due EXCEPT !["hb"] = FALSE]
    /\ IF HeartbeatDue(timeSinceLastSend)
         THEN SendJSON("hb", HeartbeatMsg)
         ELSE UNCHANGED <<pc, msg, issued, inWrite, overlap>>
    /\ UNCHANGED <<stage, connVars, termVars, procVars, timeSinceLastSend,
                   envVars, lastGeom, sigs, wireVars, sendFailed, events>>
    /\ UNCHANGED <<cliVars, wcpVars, encVars>>
    /\ UNCHANGED extVars

\* --------------------------------------------------------------- output pump
\* conn.ReadMessage returns a frame: os.Stdout.Write(msg).
ReadMessageOk ==
    /\ Running
    /\ pc["out"] = "wait"
    /\ connState = "open"
    /\ UNCHANGED <<events, pc, stage, msg, issued, connVars, termVars, procVars, timeSinceLastSend, due, envVars, lastGeom, sigs, wireVars, inWrite, overlap,
                   sendFailed>>
    /\ UNCHANGED <<cliVars, wcpVars, encVars>>
    /\ UNCHANGED extVars

\* conn.ReadMessage returns an error: os.Exit(0), which runs no deferred call.
ReadMessageError ==
    /\ Running
    /\ pc["out"] = "wait"
    /\ connState \in {"broken", "closed"}
    /\ proc' = "exited"
    /\ exitKind' = "recv_error"
    /\ UNCHANGED <<pc, stage, msg, issued, connVars, termVars, timeSinceLastSend, due,
                   envVars, lastGeom, sigs, wireVars, inWrite, overlap, sendFailed,
                   events>>
    /\ UNCHANGED <<cliVars, wcpVars, encVars>>
    /\ UNCHANGED extVars

\* --------------------------------------------------------------- environment
\* The remote side goes away or the transport fails.
TransportFails ==
    /\ Running
    /\ connState = "open"
    /\ events < MaxEvents
    /\ events' = events + 1
    /\ connState' = "broken"
    /\ UNCHANGED <<pc, stage, msg, issued, closeCalls, termVars, procVars,
                   timeSinceLastSend, due, envVars, lastGeom, sigs, wireVars, inWrite,
                   overlap, sendFailed>>
    /\ UNCHANGED <<cliVars, wcpVars, encVars>>
    /\ UNCHANGED extVars

\* The local terminal gets another size.
Resized ==
    /\ Running
    /\ pc["watch"] # "off"
    /\ \E g \in Geoms \ {geom} : geom' = g
    /\ UNCHANGED <<pc, stage, msg, issued, connVars, termVars, procVars, timeSinceLastSend, due, stdoutTTY, lastGeom, sigs, wireVars, inWrite, overlap,
                   sendFailed>>
    /\ UNCHANGED <<cliVars, wcpVars, encVars>>
    /\ UNCHANGED extVars

\* The user resizes the local terminal, as one of the events of a busy session.
TerminalResized ==
    /\ events < MaxEvents
    /\ events' = events + 1
    /\ Resized

\* The terminal is resized in a session in which nothing else happens.
IdleResize ==
    /\ Resized
    /\ UNCHANGED events

\* One second passes: every age grows, both tickers (started with their
\* goroutines) fire; a tick not yet taken is dropped.
Elapse ==
    /\ Running
    /\ timeSinceLastSend' = Older(timeSinceLastSend)
    /\ otherAge' = Older(otherAge)
    /\ hbAge' = Older(hbAge)
    /\ due' = [t \in {"watch", "hb"} |-> pc[t] # "off"]
    /\ UNCHANGED <<pc, stage, msg, issued, connVars, termVars, procVars, envVars, lastGeom,
                   sigs, wire, order, garbled, inWrite, overlap, sendFailed>>
    /\ UNCHANGED <<cliVars, wcpVars, encVars>>
    /\ UNCHANGED extVars

\* A second passing, as one of the events of a busy session.
Tick ==
    /\ events < MaxEvents
    /\ events' = events + 1
    /\ Elapse

\* A second passing in a session in which nothing else happens.
IdleTick ==
    /\ Elapse
    /\ UNCHANGED events

Next ==
    \/ NewConnectionOk
    \/ NewConnectionFail
    \/ MakeRawOk
    \/ MakeRawFail
    \/ StdinRead
    \/ StdinError
    \/ ForceQuitClose
    \/ DeferRestore
    \/ DeferClose
    \/ updateLastSendTimeMain
    \/ \E t \in Senders \ {"main"} : updateLastSendTime(t)
    \/ \E t \in Senders : WriteMessage(t)
    \/ SignalArrives
    \/ SignalDropped
    \/ SignalHandler
    \/ ResizeWatch
    \/ HeartbeatPoll
    \/ ReadMessageOk
    \/ ReadMessageError
    \/ TransportFails
    \/ TerminalResized
    \/ Tick

Spec == Init /\ [][Next]_vars

\* The idle session: the connection stays up, the user types nothing, no
\* signal arrives and the terminal keeps its size, for any length of time.
NextIdle ==
    \/ NewConnectionOk
    \/ MakeRawOk
    \/ updateLastSendTimeMain
    \/ \E t \in {"watch", "hb"} : updateLastSendTime(t)
    \/ \E t \in {"main", "watch", "hb"} : WriteMessage(t)
    \/ ResizeWatch
    \/ HeartbeatPoll
    \/ ReadMessageOk
    \/ IdleTick

\* The session in which only the user acts: runWSH and its stdin loop, the
\* other goroutines waiting.
NextInput ==
    \/ NewConnectionOk
    \/ MakeRawOk
    \/ updateLastSendTimeMain
    \/ WriteMessage("main")
    \/ StdinReadAny
    \/ ForceQuitClose
    \/ DeferRestore
    \/ DeferClose
    \/ ReadMessageOk

SpecInput == Init /\ [][NextInput]_vars

\* The OS delivers a termination signal runWSH has not asked for (SIGTERM,
\* SIGHUP, SIGQUIT: signal.Notify names SIGINT and SIGWINCH only): the Go
\* runtime ends the process at once, no deferred call runs.
Terminated ==
    /\ Running
    /\ proc' = "exited"
    /\ exitKind' = "terminated"
    /\ UNCHANGED <<pc, stage, msg, issued, connVars, termVars, timeSinceLastSend,
                   due, envVars, lastGeom, sigs, wireVars, inWrite, overlap,
                   sendFailed, events>>
    /\ UNCHANGED <<cliVars, wcpVars, encVars>>
    /\ UNCHANGED extVars

\* The session of a user who types, in a process that can be told to
\* terminate at any moment.
NextTerm ==
    \/ NextInput
    \/ Terminated

SpecTerm == Init /\ [][NextTerm]_vars

\* A goroutine that can run does run: once runWSH has left its stdin loop
\* its deferred calls are made.
SpecFair ==
    /\ Spec
    /\ WF_vars(DeferRestore)
    /\ WF_vars(DeferClose)

SpecIdle == Init /\ [][NextIdle]_vars

\* The session in which the user types nothing and sends no signal but keeps
\* resizing the terminal: runWSH makes its two sends and waits for input, the
\* resize watcher polls every second.
NextWatch ==
    \/ NewConnectionOk
    \/ MakeRawOk
    \/ updateLastSendTimeMain
    \/ updateLastSendTime("watch")
    \/ \E t \in {"main", "watch"} : WriteMessage(t)
    \/ ResizeWatch
    \/ ReadMessageOk
    \/ IdleTick
    \/ IdleResize

SpecWatch == Init /\ [][NextWatch]_vars


\* ------------------------------------------------------- target resolution
\* Strings the code slices are sequences of characters.
WsScheme == <<"w", "s", ":", "/", "/">>
WssScheme == <<"w", "s", "s", ":", "/", "/">>

\* s[:n] of a string with len(s) >= n
Prefix(s, n) == SubSeq(s, 1, n)

\* len(s) > 6 && (s[:6] == "ws://" || s[:7] == "wss://")
IsURL(s) ==
    Len(s) > 6 /\ (Prefix(s, 6) = WsScheme \/ Prefix(s, 7) = WssScheme)

\* FindEndpoint: the first endpoint with exactly that name, or an error.
FindEndpoint(endpoints, name) ==
    IF \E i \in DOMAIN endpoints : endpoints[i].name = name
      THEN [ok |-> TRUE,
            url |-> endpoints[CHOOSE i \in DOMAIN endpoints :
                        /\ endpoints[i].name = name
                        /\ \A j \in 1..(i - 1) : endpoints[j].name # name].url]
      ELSE [ok |-> FALSE, url |-> <<>>]

\* if !IsURL(arg) { LoadConfig; FindEndpoint; targetURL = endpoint.URL }
\* else { targetURL = arg }: the target, whether the config was consulted,
\* and the way the resolution fails.
Resolve(a, c) ==
    IF ~IsURL(a)
      THEN IF ~c.ok
             THEN [err |-> "config_error", url |-> <<>>, looked |-> 0]
           ELSE IF ~FindEndpoint(c.endpoints, a).ok
             THEN [err |-> "no_endpoint", url |-> <<>>, looked |-> 1]
           ELSE [err |-> "none", url |-> FindEndpoint(c.endpoints, a).url,
                 looked |-> 1]
      ELSE [err |-> "none", url |-> a, looked |-> 0]

\* --- the target resolution of runWSH on its own
\* what follows the scheme: two characters or more
Tails == UNION {[1..n -> {"h", "."}] : n \in 2..MaxTail}
Schemes == {<<>>, WsScheme, WssScheme, <<"w", "s", ":", "/">>,
            <<"h", "t", "t", "p", ":", "/", "/">>}
Args == {p \o t : p \in Schemes, t \in Tails}
Configs == {[ok |-> FALSE, endpoints |-> <<>>],
            [ok |-> TRUE, endpoints |-> <<>>],
            [ok |-> TRUE, endpoints |->
                <<[name |-> <<"h", "h">>, url |-> WsScheme \o <<"h", ".">>],
                  [name |-> WsScheme \o <<"h", "h">>, url |-> WssScheme \o <<"h", ".">>]>>]}

InitResolve ==
    /\ pc = [t \in Tasks |-> IF t = "main" THEN "resolve" ELSE "off"]
    /\ stage = "resize0"
    /\ msg = [t \in Senders |-> NoMsg]
    /\ connState = "none"
    /\ closeCalls = 0
    /\ termMode = "cooked"
    /\ modeChanges = 0
    /\ resetEmitted = FALSE
    /\ proc = "running"
    /\ exitKind = "none"
    /\ timeSinceLastSend = Cap
    /\ due = [t \in {"watch", "hb"} |-> FALSE]
    /\ geom = <<80, 24>>
    /\ stdoutTTY = TRUE
    /\ lastGeom = <<0, 0>>
    /\ sigs = "none"
    /\ wire = <<>>
    /\ garbled = FALSE
    /\ otherAge = Cap
    /\ hbAge = Cap
    /\ inWrite = {}
    /\ overlap = {}
    /\ sendFailed = {}
    /\ issued = [t \in Senders |-> 0]
    /\ order = <<>>
    /\ events = 0
    /\ arg \in Args
    /\ config \in Configs
    /\ targetURL = <<>>
    /\ lookups = 0
    /\ wpc = "off"
    /\ wi = 0
    /\ stat = "ok"
    /\ fileSize = 0
    /\ force = FALSE
    /\ warned = FALSE
    /\ encodedLen = -1
    /\ encodedData = <<>>
    /\ Pristine
    /\ closer = "off"
    /\ dials = 0
    /\ NoEncoding

\* runWSH resolves its argument: an endpoint of the config, or the argument
\* itself when IsURL says it is a URL; a failed lookup is os.Exit(1).
ResolveTarget ==
    /\ Running
    /\ pc["main"] = "resolve"
    /\ lookups' = lookups + Resolve(arg, config).looked
    /\ IF Resolve(arg, config).err # "none"
         THEN /\ proc' = "exited"
              /\ exitKind' = Resolve(arg, config).err
              /\ UNCHANGED <<pc, targetURL>>
         ELSE /\ targetURL' = Resolve(arg, config).url
              /\ pc' = [pc EXCEPT !["main"] = "dial"]
              /\ UNCHANGED procVars
    /\ UNCHANGED <<stage, msg, issued, connVars, termVars, timeSinceLastSend,
                   due, envVars, lastGeom, sigs, wireVars, inWrite, overlap,
                   sendFailed, events, arg, config, wcpVars, encVars>>
    /\ UNCHANGED extVars

NextResolve ==
    \/ ResolveTarget
    \/ NewConnectionOk
    \/ NewConnectionFail

SpecResolve == InitResolve /\ [][NextResolve]_vars

\* ------------------------------------------------- file-transfer client (wcp)
chunkSize == 256
maxFileSize == 32 * 1024
endMarker == "__EOF"

\* A client that sends no line-discipline commands.
NoSttyCommands == <<>>

\* the commands of setupTTY, in order
SttyCommands == <<"stty -echo", "stty -icanon", "stty -isig", "stty -iexten",
                  "stty -echoctl", "stty -echoke", "stty -echoprt",
                  "stty -echoe", "stty -echonl">>
\* the commands sent after the end marker
PostCommands == <<"reset", "echo 'it works'">>

\* cmd + "\n"
Line(c) == [line |-> c]
\* the handshake for filepath.Base(localFile)
Handshake == Line("cat <<'__EOF' |base64 --decode |gunzip > fileName")
\* A slice that leaves out its first byte.
SliceWithoutFirst(data, start, end) == SubSeq(data, start + 2, end)

\* data[start:end]
Slice(data, start, end) == SubSeq(data, start + 1, end)

\* string(data[start:end]) + "\n", with the offsets of the slice
Chunk(data, start, end) ==
    [from |-> start, to |-> end, text |-> Slice(data, start, end) \o <<"\n">>]

StatResults == {"ok", "notexist", "error"}
FileSizes == {300, maxFileSize, maxFileSize + 1}
DevName == <<"d", "e", "v">>
DevURL == WsScheme \o <<"d", "e", "v", ":", "8", "0">>
WcpArgs == {DevName, DevURL}
WcpConfigs == {[ok |-> FALSE, endpoints |-> <<>>],
               [ok |-> TRUE, endpoints |-> <<[name |-> DevName, url |-> DevURL]>>]}

\* No interactive session runs in this process.
NoSession ==
    /\ pc = [t \in Tasks |-> "off"]
    /\ stage = "resize0"
    /\ msg = [t \in Senders |-> NoMsg]
    /\ termMode = "cooked"
    /\ modeChanges = 0
    /\ resetEmitted = FALSE
    /\ timeSinceLastSend = Cap
    /\ due = [t \in {"watch", "hb"} |-> FALSE]
    /\ geom = <<80, 24>>
    /\ stdoutTTY = TRUE
    /\ lastGeom = <<0, 0>>
    /\ sigs = "none"
    /\ garbled = FALSE
    /\ otherAge = Cap
    /\ hbAge = Cap
    /\ inWrite = {}
    /\ overlap = {}
    /\ order = <<>>
    /\ events = 0

InitWcp ==
    /\ NoSession
    /\ connState = "none"
    /\ closeCalls = 0
    /\ proc = "running"
    /\ exitKind = "none"
    /\ wire = <<>>
    /\ sendFailed = {}
    /\ issued = [t \in Senders |-> 0]
    /\ arg \in WcpArgs
    /\ config \in WcpConfigs
    /\ targetURL = <<>>
    /\ lookups = 0
    /\ wpc = "stat"
    /\ wi = 0
    /\ stat \in StatResults
    /\ fileSize \in (IF stat = "ok" THEN FileSizes ELSE {0})
    /\ force \in BOOLEAN
    /\ warned = FALSE
    /\ encodedLen = -1
    /\ encodedData = <<>>
    /\ Pristine
    /\ closer = "off"
    /\ dials = 0
    /\ NoEncoding

\* log.Fatal, os.Exit(1) or a panic in main of the file-transfer client
WcpExit(kind) ==
    /\ proc' = "exited"
    /\ exitKind' = kind

\* os.Stat(localFile): a missing file is fatal; any other error leaves
\* fileInfo nil and fileInfo.Size() panics.
WcpStat ==
    /\ Running
    /\ wpc = "stat"
    /\ IF stat = "ok"
         THEN wpc' = "gate" /\ UNCHANGED procVars
         ELSE WcpExit(IF stat = "notexist" THEN "no_file" ELSE "panic")
              /\ UNCHANGED wpc
    /\ UNCHANGED <<sessionVars, encVars, connVars, wire, sendFailed, issued, events,
                   cliVars, wi, stat, fileSize, force, warned, encodedLen,
                   closer, dials>>
    /\ UNCHANGED extVars

\* A gate that also rejects a file of exactly the limit.
ExceedsLimitAtThreshold(size, f) == size >= maxFileSize /\ ~f

\* fileSize > maxFileSize && !*force
ExceedsLimit(size, f) == size > maxFileSize /\ ~f

\* A warning printed for every file.
LargeFileWarningAlways(size) == TRUE

\* if fileSize > maxFileSize { fmt.Printf("Warning: ...") }
LargeFileWarning(size) == size > maxFileSize

\* The size check: exit(1) over the limit without --force, else the warning
\* for a large file, and on to the target resolution.
WcpSizeGate ==
    /\ Running
    /\ wpc = "gate"
    /\ IF ExceedsLimit(fileSize, force)
         THEN WcpExit("too_large") /\ UNCHANGED <<wpc, warned>>
         ELSE /\ warned' = LargeFileWarning(fileSize)
              /\ wpc' = "resolve"
              /\ UNCHANGED procVars
    /\ UNCHANGED <<sessionVars, encVars, connVars, wire, sendFailed, issued, events,
                   cliVars, wi, stat, fileSize, force, encodedLen, closer, dials>>
    /\ UNCHANGED extVars

\* The target of the file-transfer client: an endpoint of the config or the
\* argument itself.
WcpResolveTarget ==
    /\ Running
    /\ wpc = "resolve"
    /\ lookups' = lookups + Resolve(arg, config).looked
    /\ IF Resolve(arg, config).err # "none"
         THEN WcpExit(Resolve(arg, config).err) /\ UNCHANGED <<wpc, targetURL>>
         ELSE /\ targetURL' = Resolve(arg, config).url
              /\ wpc' = "dial"
              /\ UNCHANGED procVars
    /\ UNCHANGED <<sessionVars, encVars, connVars, wire, sendFailed, issued, events,
                   arg, config, wi, stat, fileSize, force, warned, encodedLen,
                   closer, dials>>
    /\ UNCHANGED extVars

\* wshutils.NewConnection(targetURL): on failure log.Fatal, else
\* defer conn.Close() and on to setupTTY.
WcpDial ==
    /\ Running
    /\ wpc = "dial"
    /\ dials' = dials + 1
    /\ \/ /\ connState' = "open"
          /\ wpc' = "stty"
          /\ UNCHANGED procVars
       \/ /\ WcpExit("connect_error")
          /\ UNCHANGED <<connState, wpc>>
    /\ UNCHANGED <<sessionVars, encVars, closeCalls, wire, sendFailed, issued, events,
                   cliVars, wi, stat, fileSize, force, warned, encodedLen,
                   closer>>
    /\ UNCHANGED extVars

\* A caller that goes on after a failed send.
ErrIgnored(o) == FALSE

\* if err := conn.SendJSON(...); err != nil { return fmt.Errorf(...) }
ErrNotNil(o) == o = "error"

\* conn.SendJSON(m) in main of the file-transfer client, the only sender of
\* its Connection: on an error the function returns it and main ends in
\* log.Fatal; else main goes on to (nextpc, nexti).
WcpSendJSON(m, kind, nextpc, nexti) ==
    /\ issued' = [issued EXCEPT !["main"] = @ + 1]
    /\ \E o \in WriteOutcomes("main") :
        /\ wire' = IF o = "ok" THEN Deliver(wire, Frame("main", m)) ELSE wire
        /\ sendFailed' = IF o = "error" THEN sendFailed \cup {"main"}
                         ELSE sendFailed
        /\ IF ErrNotNil(o)
             THEN WcpExit(kind) /\ UNCHANGED <<wpc, wi>>
             ELSE wpc' = nextpc /\ wi' = nexti /\ UNCHANGED procVars

\* setupTTY: for _, cmd := range commands { SendJSON(Cmd{cmd + "\n"}) }
setupTTY ==
    /\ Running
    /\ wpc = "stty"
    /\ IF wi < Len(SttyCommands)
         THEN WcpSendJSON(CmdMsg(Line(SttyCommands[wi + 1])), "setup_error",
                          "stty", wi + 1)
         ELSE /\ wpc' = "handshake"
              /\ wi' = 0
              /\ UNCHANGED <<wire, sendFailed, issued, procVars>>
    /\ UNCHANGED <<sessionVars, encVars, connVars, events, cliVars, stat, fileSize,
                   force, warned, encodedLen, closer, dials>>
    /\ UNCHANGED extVars

\* transferFile, step 1: the handshake
SendHandshake ==
    /\ Running
    /\ wpc = "handshake"
    /\ WcpSendJSON(CmdMsg(Handshake), "transfer_error", "encode", 0)
    /\ UNCHANGED <<sessionVars, encVars, connVars, events, cliVars, stat, fileSize,
                   force, warned, encodedLen, closer, dials>>
    /\ UNCHANGED extVars

\* lengths encodeFile can return: base64 text of a gzip stream
MinBlob == 32
MaxBlob == MaxChunks * chunkSize

\* base64.StdEncoding: the alphabet and the padding character
B64Alphabet ==
    <<"A", "B", "C", "D", "E", "F", "G", "H", "I", "J", "K", "L", "M", "N", "O",
      "P", "Q", "R", "S", "T", "U", "V", "W", "X", "Y", "Z", "a", "b", "c", "d",
      "e", "f", "g", "h", "i", "j", "k", "l", "m", "n", "o", "p", "q", "r", "s",
      "t", "u", "v", "w", "x", "y", "z", "0", "1", "2", "3", "4", "5", "6", "7",
      "8", "9", "+", "/">>
B64Pad == "="
B64Char(v) == B64Alphabet[v + 1]

\* A text of l characters of the base64 alphabet that repeats with no period
\* of the chunk size: it stands for the text encodeFile returns for a file
\* too long to be encoded character by character.
Blob(l) == [i \in 1..l |-> B64Alphabet[(((i - 1) + ((i - 1) \div 64)) % 64) + 1]]
WcpBlobLens ==
    {l \in MinBlob..MaxBlob :
        l % 4 = 0 /\ (l % chunkSize) \in {0, 4, MinBlob, chunkSize - 4}}

\* transferFile, step 2: encodeFile(localFile) returns the blob, or an error
\* when the file cannot be opened or read any more.
encodeFile ==
    /\ Running
    /\ wpc = "encode"
    /\ \/ /\ \E l \in WcpBlobLens :
                /\ encodedLen' = l
                /\ encodedData' = Blob(l)
          /\ wpc' = "chunks"
          /\ UNCHANGED procVars
       \/ /\ WcpExit("transfer_error")
          /\ UNCHANGED <<wpc, encodedLen, encodedData>>
    /\ UNCHANGED <<sessionVars, encVars, connVars, wire, sendFailed, issued, events,
                   cliVars, wi, stat, fileSize, force, warned, closer, dials>>
    /\ UNCHANGED <<lockVars, lost, buf>>

\* A chunk count that forgets the last, shorter chunk.
TotalChunksRoundedDown(L) == L \div chunkSize

\* totalChunks := (len(data) + chunkSize - 1) / chunkSize
TotalChunks(L) == (L + chunkSize - 1) \div chunkSize

\* start := i * chunkSize
ChunkStart(i) == i * chunkSize

\* end := start + chunkSize; if end > len(data) { end = len(data) }
ChunkEnd(L, i) ==
    IF ChunkStart(i) + chunkSize > L THEN L ELSE ChunkStart(i) + chunkSize

\* sendEncodedData: one round of for i := 0; i < totalChunks; i++
sendEncodedData ==
    /\ Running
    /\ wpc = "chunks"
    /\ IF wi < TotalChunks(Len(encodedData))
         THEN WcpSendJSON(CmdMsg(Chunk(encodedData, ChunkStart(wi),
                                       ChunkEnd(Len(encodedData), wi))),
                          "transfer_error", "chunks", wi + 1)
         ELSE /\ wpc' = "endmarker"
              /\ wi' = 0
              /\ UNCHANGED <<wire, sendFailed, issued, procVars>>
    /\ UNCHANGED <<sessionVars, encVars, connVars, events, cliVars, stat, fileSize,
                   force, warned, encodedLen, closer, dials>>
    /\ UNCHANGED extVars

\* transferFile, step 4: the end marker
SendEndMarker ==
    /\ Running
    /\ wpc = "endmarker"
    /\ WcpSendJSON(CmdMsg(Line(endMarker)), "transfer_error", "post", 0)
    /\ UNCHANGED <<sessionVars, encVars, connVars, events, cliVars, stat, fileSize,
                   force, warned, encodedLen, closer, dials>>
    /\ UNCHANGED extVars

\* A transferFile that starts no delayed close.
StartCloserNever == "off"

\* go func() { time.Sleep(5 * time.Second); conn.Close() }()
StartCloser == "sleeping"

\* A loop that takes its commands for sent before it has sent any.
NoPostCommandLeft(i) == FALSE

\* for _, cmd := range postCommands: a command is still to be sent
PostCommandLeft(i) == i < Len(PostCommands)

\* transferFile, step 5: the post commands; after the last one the delayed
\* close is started, transferFile returns nil and main enters its receive loop.
SendPostCommands ==
    /\ Running
    /\ wpc = "post"
    /\ IF PostCommandLeft(wi)
         THEN /\ WcpSendJSON(CmdMsg(Line(PostCommands[wi + 1])),
                             "transfer_error", "post", wi + 1)
              /\ UNCHANGED closer
         ELSE /\ closer' = StartCloser
              /\ wpc' = "recv"
              /\ wi' = 0
              /\ UNCHANGED <<wire, sendFailed, issued, procVars>>
    /\ UNCHANGED <<sessionVars, encVars, connVars, events, cliVars, stat, fileSize,
                   force, warned, encodedLen, dials>>
    /\ UNCHANGED extVars

\* The delayed close: five seconds after the transfer, conn.Close().
CloserFires ==
    /\ Running
    /\ closer = "sleeping"
    /\ closer' = "done"
    /\ connState' = Close(connState)
    /\ closeCalls' = closeCalls + 1
    /\ UNCHANGED <<sessionVars, encVars, wire, sendFailed, issued, events, procVars,
                   cliVars, wpc, wi, stat, fileSize, force, warned, encodedLen,
                   dials>>
    /\ UNCHANGED extVars

\* The receive loop: a message of the remote side is printed.
WcpReadMessageOk ==
    /\ Running
    /\ wpc = "recv"
    /\ connState = "open"
    /\ UNCHANGED vars

\* The receive loop: conn.ReadMessage fails, "Connection closed", break.
WcpReadMessageError ==
    /\ Running
    /\ wpc = "recv"
    /\ connState \in {"broken", "closed"}
    /\ wpc' = "defer_close"
    /\ UNCHANGED <<sessionVars, encVars, connVars, wire, sendFailed, issued, events,
                   procVars, cliVars, wi, stat, fileSize, force, warned,
                   encodedLen, closer, dials>>
    /\ UNCHANGED extVars

\* main returns: the deferred conn.Close() runs and the process ends.
WcpDeferClose ==
    /\ Running
    /\ wpc = "defer_close"
    /\ connState' = Close(connState)
    /\ closeCalls' = closeCalls + 1
    /\ wpc' = "done"
    /\ WcpExit("returned")
    /\ UNCHANGED <<sessionVars, encVars, wire, sendFailed, issued, events, cliVars, wi,
                   stat, fileSize, force, warned, encodedLen, closer, dials>>
    /\ UNCHANGED extVars

NextWcp ==
    \/ WcpStat
    \/ WcpSizeGate
    \/ WcpResolveTarget
    \/ WcpDial
    \/ setupTTY
    \/ SendHandshake
    \/ encodeFile
    \/ sendEncodedData
    \/ SendEndMarker
    \/ SendPostCommands
    \/ CloserFires
    \/ WcpReadMessageOk
    \/ WcpReadMessageError
    \/ WcpDeferClose
    \/ TransportFails

SpecWcp == InitWcp /\ [][NextWcp]_vars

\* sendEncodedData on its own, for a blob of any length up to MaxBlob, over
\* a Connection that stays open.
InitChunk ==
    /\ NoSession
    /\ connState = "open"
    /\ closeCalls = 0
    /\ proc = "running"
    /\ exitKind = "none"
    /\ wire = <<>>
    /\ sendFailed = {}
    /\ issued = [t \in Senders |-> 0]
    /\ arg = DevName
    /\ config \in {c \in WcpConfigs : c.ok}
    /\ targetURL = DevURL
    /\ lookups = 1
    /\ wpc = "chunks"
    /\ wi = 0
    /\ stat = "ok"
    /\ fileSize = 300
    /\ force = FALSE
    /\ warned = FALSE
    /\ encodedLen \in 0..MaxBlob
    /\ encodedData = Blob(encodedLen)
    /\ Pristine
    /\ closer = "off"
    /\ dials = 1
    /\ NoEncoding

SpecChunk == InitChunk /\ [][sendEncodedData]_vars

\* The scheduler runs every goroutine that can take a step, and the timer of
\* the delayed close expires.
SpecWcpFair ==
    /\ SpecWcp
    /\ WF_vars(CloserFires)
    /\ WF_vars(WcpReadMessageError)
    /\ WF_vars(WcpDeferClose)

\* ------------------------------------------------------------- encodeFile
\* Bytes are 0..255. A 32-bit word is a sequence of 32 bits, the highest
\* first; Word(n) is the word of a number below 2^31.
Word(n) == [i \in 1..32 |-> IF i = 1 THEN 0 ELSE (n \div (2 ^ (32 - i))) % 2]
XorWord(a, b) == [i \in 1..32 |-> (a[i] + b[i]) % 2]
\* w >> 1
ShiftRight(w) == [i \in 1..32 |-> IF i = 1 THEN 0 ELSE w[i - 1]]
\* byte k of the word, 0 the lowest
ByteOf(w, k) ==
    LET hi == 32 - 8 * k - 7 IN
        w[hi] * 128 + w[hi + 1] * 64 + w[hi + 2] * 32 + w[hi + 3] * 16
          + w[hi + 4] * 8 + w[hi + 5] * 4 + w[hi + 6] * 2 + w[hi + 7]
\* the word in little-endian byte order
LittleEndian(w) == <<ByteOf(w, 0), ByteOf(w, 1), ByteOf(w, 2), ByteOf(w, 3)>>

\* 0xEDB88320, the reflected CRC-32 polynomial of hash/crc32 (IEEE)
CrcPoly == <<1,1,1,0, 1,1,0,1, 1,0,1,1, 1,0,0,0, 1,0,0,0, 0,0,1,1, 0,0,1,0, 0,0,0,0>>

RECURSIVE CrcShift(_, _)
\* n rounds of: crc = (crc >> 1) ^ (poly if the lowest bit was set)
CrcShift(c, n) ==
    IF n = 0 THEN c
    ELSE CrcShift(IF c[32] = 1 THEN XorWord(ShiftRight(c), CrcPoly)
                  ELSE ShiftRight(c), n - 1)

RECURSIVE CrcUpdate(_, _)
\* the running (inverted) CRC after the bytes of p
CrcUpdate(c, p) ==
    IF p = <<>> THEN c
    ELSE CrcUpdate(CrcShift(XorWord(c, Word(Head(p))), 8), Tail(p))

\* the CRC as written: the running value inverted
CrcFinal(c) == [i \in 1..32 |-> 1 - c[i]]

\* The gzip member header compress/gzip writes for a Writer with no name, no
\* comment and a zero ModTime: magic, deflate, no flags, mtime 0, xfl 0, OS 255.
GzipHeader == <<31, 139, 8, 0, 0, 0, 0, 0, 0, 255>>

\* The deflate stream for the bytes d, as one final stored block: the block
\* header, LEN and its complement in little-endian order, then the bytes.
\* (compress/flate chooses among stored, fixed and dynamic Huffman blocks; all
\* inflate to d. The stored form keeps the framing and leaves out the entropy
\* coding.)
Deflate(d) ==
    <<1, Len(d) % 256, Len(d) \div 256,
      255 - (Len(d) % 256), 255 - (Len(d) \div 256)>> \o d

\* gzip.Writer.Write(p): the header goes out with the first Write, the bytes
\* go to the compressor, the checksum and the size are updated.
GzipWrite(w, p) ==
    [out |-> IF w.header THEN w.out ELSE w.out \o GzipHeader,
     pending |-> w.pending \o p,
     header |-> TRUE,
     crc |-> CrcUpdate(w.crc, p),
     size |-> w.size + Len(p)]

\* A gzip.Writer that is read without having been closed.
GzipNotClosed(w) == w

\* gzip.Writer.Close(): the header if no Write came, the compressed bytes,
\* then CRC-32 and size, both little-endian.
GzipClose(w) ==
    [out |-> (IF w.header THEN w.out ELSE w.out \o GzipHeader)
               \o Deflate(w.pending)
               \o LittleEndian(CrcFinal(w.crc))
               \o LittleEndian(Word(w.size)),
     pending |-> <<>>,
     header |-> TRUE,
     crc |-> w.crc,
     size |-> w.size]

\* three bytes as four characters
B64Group(b1, b2, b3) ==
    <<B64Char(b1 \div 4), B64Char((b1 % 4) * 16 + b2 \div 16),
      B64Char((b2 % 16) * 4 + b3 \div 64), B64Char(b3 % 64)>>

RECURSIVE B64Full(_)
\* the characters of the whole groups of three bytes at the front of d
B64Full(d) ==
    IF Len(d) < 3 THEN <<>>
    ELSE B64Group(d[1], d[2], d[3]) \o B64Full(SubSeq(d, 4, Len(d)))

\* the one or two bytes left over, padded to four characters
B64Rest(d) ==
    IF Len(d) = 0 THEN <<>>
    ELSE IF Len(d) = 1
      THEN <<B64Char(d[1] \div 4), B64Char((d[1] % 4) * 16), B64Pad, B64Pad>>
    ELSE <<B64Char(d[1] \div 4), B64Char((d[1] % 4) * 16 + d[2] \div 16),
           B64Char((d[2] % 16) * 4), B64Pad>>

\* encoder.Write(p): whole groups are encoded, up to two bytes are kept.
EncoderWrite(e, p) ==
    LET all == e.pending \o p
        whole == Len(all) - (Len(all) % 3)
    IN [out |-> e.out \o B64Full(SubSeq(all, 1, whole)),
        pending |-> SubSeq(all, whole + 1, Len(all))]

\* An encoder that is read without having been closed.
EncoderNotClosed(e) == e

\* encoder.Close(): the bytes kept are encoded with padding.
EncoderClose(e) == [out |-> e.out \o B64Rest(e.pending), pending |-> <<>>]

\* ---- the remote pipeline: base64 --decode | gunzip
IsB64Char(c) == \E v \in 0..63 : B64Char(v) = c
B64Value(c) == CHOOSE v \in 0..63 : B64Char(v) = c

\* four characters as up to three bytes; <<-1>> for a group that is no base64
B64Ungroup(g, last) ==
    IF ~(IsB64Char(g[1]) /\ IsB64Char(g[2])) THEN <<-1>>
    ELSE IF g[3] = B64Pad
      THEN IF last /\ g[4] = B64Pad
             THEN <<B64Value(g[1]) * 4 + B64Value(g[2]) \div 16>>
             ELSE <<-1>>
    ELSE IF ~IsB64Char(g[3]) THEN <<-1>>
    ELSE IF g[4] = B64Pad
      THEN IF last
             THEN <<B64Value(g[1]) * 4 + B64Value(g[2]) \div 16,
                    (B64Value(g[2]) % 16) * 16 + B64Value(g[3]) \div 4>>
             ELSE <<-1>>
    ELSE IF ~IsB64Char(g[4]) THEN <<-1>>
    ELSE <<B64Value(g[1]) * 4 + B64Value(g[2]) \div 16,
           (B64Value(g[2]) % 16) * 16 + B64Value(g[3]) \div 4,
           (B64Value(g[3]) % 4) * 64 + B64Value(g[4])>>

RECURSIVE B64DecodeGroups(_)
B64DecodeGroups(t) ==
    IF t = <<>> THEN <<>>
    ELSE B64Ungroup(SubSeq(t, 1, 4), Len(t) = 4)
           \o B64DecodeGroups(SubSeq(t, 5, Len(t)))

\* base64 --decode of the text
B64Decode(t) ==
    IF Len(t) % 4 # 0 THEN [ok |-> FALSE, data |-> <<>>]
    ELSE IF \E i \in DOMAIN B64DecodeGroups(t) : B64DecodeGroups(t)[i] = -1
      THEN [ok |-> FALSE, data |-> <<>>]
    ELSE [ok |-> TRUE, data |-> B64DecodeGroups(t)]

\* gunzip of one member: header, one final stored block, CRC-32 and size
Gunzip(z) ==
    LET n == Len(z) - 23
        d == SubSeq(z, 16, 15 + n)
    IN IF /\ n >= 0
          /\ SubSeq(z, 1, 4) = <<31, 139, 8, 0>>
          /\ z[11] = 1
          /\ z[12] + 256 * z[13] = n
          /\ z[14] = 255 - z[12] /\ z[15] = 255 - z[13]
          /\ SubSeq(z, 16 + n, 19 + n)
               = LittleEndian(CrcFinal(CrcUpdate([i \in 1..32 |-> 1], d)))
          /\ SubSeq(z, 20 + n, 23 + n) = LittleEndian(Word(n))
         THEN [ok |-> TRUE, data |-> d]
         ELSE [ok |-> FALSE, data |-> <<>>]

\* ---- encodeFile step by step, for every file of up to MaxFileLen bytes
FileBytes == {0, 97, 255}
Files == UNION {[1..n -> FileBytes] : n \in 0..MaxFileLen}

InitEncode ==
    /\ fileData \in Files
    /\ NoSession
    /\ connState = "open"
    /\ closeCalls = 0
    /\ proc = "running"
    /\ exitKind = "none"
    /\ wire = <<>>
    /\ sendFailed = {}
    /\ issued = [t \in Senders |-> 0]
    /\ arg = DevName
    /\ config \in {c \in WcpConfigs : c.ok}
    /\ targetURL = DevURL
    /\ lookups = 1
    /\ wpc = "enc_copy"
    /\ wi = 0
    /\ stat = "ok"
    /\ fileSize = Len(fileData)
    /\ force = FALSE
    /\ warned = FALSE
    /\ encodedLen = -1
    /\ encodedData = <<>>
    /\ Pristine
    /\ closer = "off"
    /\ dials = 1
    /\ gw = [out |-> <<>>, pending |-> <<>>, header |-> FALSE,
             crc |-> [i \in 1..32 |-> 1], size |-> 0]
    /\ encoder = [out |-> <<>>, pending |-> <<>>]
    /\ remoteFile = [ok |-> FALSE, data |-> <<>>]

\* io.Copy(gw, sourceFile): the bytes of the file are written to the gzip
\* writer; an empty file makes no Write call.
CopyToGzip ==
    /\ wpc = "enc_copy"
    /\ gw' = IF fileData = <<>> THEN gw ELSE GzipWrite(gw, fileData)
    /\ wpc' = "enc_gzclose"
    /\ UNCHANGED <<sessionVars, connVars, wire, sendFailed, issued, events,
                   procVars, cliVars, wi, stat, fileSize, force, warned,
                   encodedLen, closer, dials, fileData, encoder, remoteFile>>
    /\ UNCHANGED extVars

\* gw.Close()
CloseGzip ==
    /\ wpc = "enc_gzclose"
    /\ gw' = GzipClose(gw)
    /\ wpc' = "enc_b64write"
    /\ UNCHANGED <<sessionVars, connVars, wire, sendFailed, issued, events,
                   procVars, cliVars, wi, stat, fileSize, force, warned,
                   encodedLen, closer, dials, fileData, encoder, remoteFile>>
    /\ UNCHANGED extVars

\* encoder.Write(gzipBuffer.Bytes())
WriteBase64 ==
    /\ wpc = "enc_b64write"
    /\ encoder' = EncoderWrite(encoder, gw.out)
    /\ wpc' = "enc_b64close"
    /\ UNCHANGED <<sessionVars, connVars, wire, sendFailed, issued, events,
                   procVars, cliVars, wi, stat, fileSize, force, warned,
                   encodedLen, closer, dials, fileData, gw, remoteFile>>
    /\ UNCHANGED extVars

\* encoder.Close(); return base64Buffer.String(), nil
CloseBase64 ==
    /\ wpc = "enc_b64close"
    /\ encoder' = EncoderClose(encoder)
    /\ encodedLen' = Len(EncoderClose(encoder).out)
    /\ encodedData' = EncoderClose(encoder).out
    /\ wpc' = "enc_returned"
    /\ UNCHANGED <<sessionVars, connVars, wire, sendFailed, issued, events,
                   procVars, cliVars, wi, stat, fileSize, force, warned,
                   closer, dials, fileData, gw, remoteFile>>
    /\ UNCHANGED <<lockVars, lost, buf>>

\* The remote shell runs the pipeline of the handshake on the text:
\* base64 --decode | gunzip > file.
RemoteRebuild ==
    /\ wpc = "enc_returned"
    /\ remoteFile' = IF B64Decode(encoder.out).ok
                       THEN Gunzip(B64Decode(encoder.out).data)
                       ELSE [ok |-> FALSE, data |-> <<>>]
    /\ wpc' = "enc_done"
    /\ UNCHANGED <<sessionVars, connVars, wire, sendFailed, issued, events,
                   procVars, cliVars, wi, stat, fileSize, force, warned,
                   encodedLen, closer, dials, fileData, gw, encoder>>
    /\ UNCHANGED extVars

NextEncode ==
    \/ CopyToGzip
    \/ CloseGzip
    \/ WriteBase64
    \/ CloseBase64
    \/ RemoteRebuild

SpecEncode == InitEncode /\ [][NextEncode]_vars

\* ------------------------------------------- the liveness clock, step by step
\* updateLastSendTime and the read of the heartbeat goroutine with the Lock,
\* the access and the Unlock as steps of their own, in a session that is up:
\* every sender goes from a send to updateLastSendTime, time passes, and the
\* heartbeat goroutine reads the clock on its ticks.
MaxNow == 3             \* seconds the monotonic clock is followed for

\* everything the clock steps leave alone
clockFrame == <<stage, msg, connVars, termVars, procVars, envVars, lastGeom,
                sigs, wireVars, inWrite, overlap, sendFailed, issued, events,
                cliVars, wcpVars, encVars, lost, buf, encodedData>>

InitClock ==
    /\ pc = [t \in Tasks |-> "wait"]
    /\ stage = "input"
    /\ msg = [t \in Senders |-> NoMsg]
    /\ connState = "open"
    /\ closeCalls = 0
    /\ termMode = "raw"
    /\ modeChanges = 1
    /\ resetEmitted = FALSE
    /\ proc = "running"
    /\ exitKind = "none"
    /\ timeSinceLastSend = Cap
    /\ due = [t \in {"watch", "hb"} |-> FALSE]
    /\ geom = <<80, 24>>
    /\ stdoutTTY = TRUE
    /\ lastGeom = <<0, 0>>
    /\ sigs = "none"
    /\ wire = <<>>
    /\ garbled = FALSE
    /\ otherAge = Cap
    /\ hbAge = Cap
    /\ inWrite = {}
    /\ overlap = {}
    /\ sendFailed = {}
    /\ issued = [t \in Senders |-> 0]
    /\ order = <<>>
    /\ events = 0
    /\ arg = <<>>
    /\ config = [ok |-> FALSE, endpoints |-> <<>>]
    /\ targetURL = <<>>
    /\ lookups = 0
    /\ wpc = "off"
    /\ wi = 0
    /\ stat = "ok"
    /\ fileSize = 0
    /\ force = FALSE
    /\ warned = FALSE
    /\ encodedLen = -1
    /\ encodedData = <<>>
    /\ NoEncoding
    /\ closer = "off"
    /\ dials = 0
    /\ mutex = "none"
    /\ lastSendTime = 0
    /\ now = 1
    /\ stamp = [t \in Senders |-> 0]
    /\ lost = {}
    /\ buf = <<>>

\* A mutex that lets every caller in.
MutexAlwaysFree(m) == TRUE

\* sync.Mutex: Lock returns when no goroutine holds the mutex.
MutexFree(m) == m = "none"

\* conn.SendJSON or conn.ResizeTerm has returned in runWSH, the signal
\* goroutine or the resize watcher; the next statement is updateLastSendTime().
SendReturns(t) ==
    /\ pc[t] = "wait"
    /\ pc' = [pc EXCEPT ![t] = "update"]
    /\ UNCHANGED <<clockFrame, timeSinceLastSend, due, lockVars>>

\* the ticker of the heartbeat goroutine delivers a tick
HeartbeatTick ==
    /\ pc["hb"] = "wait"
    /\ due["hb"]
    /\ due' = [due EXCEPT !["hb"] = FALSE]
    /\ pc' = [pc EXCEPT !["hb"] = "tick"]
    /\ UNCHANGED <<clockFrame, timeSinceLastSend, lockVars>>

\* lastSendMutex.Lock(), in updateLastSendTime or in the heartbeat goroutine
Lock(t) ==
    /\ pc[t] \in {"update", "tick"}
    /\ MutexFree(mutex)
    /\ mutex' = t
    /\ pc' = [pc EXCEPT ![t] = IF pc[t] = "update" THEN "now" ELSE "since"]
    /\ UNCHANGED <<clockFrame, timeSinceLastSend, due, lastSendTime, now, stamp>>

\* lastSendTime = time.Now(): the call of time.Now()
TimeNow(t) ==
    /\ pc[t] = "now"
    /\ stamp' = [stamp EXCEPT ![t] = now]
    /\ pc' = [pc EXCEPT ![t] = "store"]
    /\ UNCHANGED <<clockFrame, timeSinceLastSend, due, mutex, lastSendTime, now>>

\* lastSendTime = time.Now(): the assignment
StoreLastSendTime(t) ==
    /\ pc[t] = "store"
    /\ lastSendTime' = stamp[t]
    /\ stamp' = [stamp EXCEPT ![t] = 0]
    /\ pc' = [pc EXCEPT ![t] = "unlock"]
    /\ UNCHANGED <<clockFrame, timeSinceLastSend, due, mutex, now>>

\* time.Since(t): the seconds from t to now, more than any interval for the
\* zero time
Since(t) == IF t = 0 \/ now - t > Cap THEN Cap ELSE now - t

\* timeSinceLastSend := time.Since(lastSendTime)
ReadLastSendTime ==
    /\ pc["hb"] = "since"
    /\ timeSinceLastSend' = Since(lastSendTime)
    /\ pc' = [pc EXCEPT !["hb"] = "read_unlock"]
    /\ UNCHANGED <<clockFrame, due, lockVars>>

\* lastSendMutex.Unlock(): updateLastSendTime returns to its caller, the
\* heartbeat goroutine goes on to compare
Unlock(t) ==
    /\ pc[t] \in {"unlock", "read_unlock"}
    /\ mutex' = "none"
    /\ pc' = [pc EXCEPT ![t] = IF pc[t] = "unlock" THEN "wait" ELSE "decide"]
    /\ UNCHANGED <<clockFrame, timeSinceLastSend, due, lastSendTime, now, stamp>>

\* if timeSinceLastSend > heartbeatInterval: SendJSON(Heartbeat), then
\* updateLastSendTime(); else the next tick
HeartbeatDecide ==
    /\ pc["hb"] = "decide"
    /\ pc' = [pc EXCEPT !["hb"] =
                IF HeartbeatDue(timeSinceLastSend) THEN "update" ELSE "wait"]
    /\ UNCHANGED <<clockFrame, timeSinceLastSend, due, lockVars>>

\* one second passes on the monotonic clock; the ticker of the heartbeat
\* goroutine fires
ClockElapse ==
    /\ now < MaxNow
    /\ now' = now + 1
    /\ due' = [due EXCEPT !["hb"] = TRUE]
    /\ UNCHANGED <<clockFrame, pc, timeSinceLastSend, mutex, lastSendTime, stamp>>

NextClock ==
    \/ \E t \in {"main", "sig", "watch"} : SendReturns(t)
    \/ HeartbeatTick
    \/ \E t \in Senders : Lock(t)
    \/ \E t \in Senders : TimeNow(t)
    \/ \E t \in Senders : StoreLastSendTime(t)
    \/ ReadLastSendTime
    \/ \E t \in Senders : Unlock(t)
    \/ HeartbeatDecide
    \/ ClockElapse

SpecClock == InitClock /\ [][NextClock]_vars

\* ------------------------------------------------------------ session state
\* Connecting -> Active -> Closing -> Closed, read off the program state:
\* Active from raw mode on, Closing once the client has closed the Connection
\* or runWSH is in its deferred calls, Closed when the process is gone.
SessionState ==
    IF proc = "exited" THEN "Closed"
    ELSE IF pc["main"] \in {"dial", "makeraw"} THEN "Connecting"
    ELSE IF closeCalls > 0 \/ pc["main"] \in {"defer_restore", "defer_close"}
        THEN "Closing"
    ELSE "Active"

\* runWSH took the F12 branch: conn.Close() was called from the stdin loop.
ForceQuitTaken ==
    /\ closeCalls >= 1
    /\ (pc["main"] \in {"defer_restore", "defer_close"} \/ closeCalls = 2)

TerminalRestored == termMode = "cooked" /\ resetEmitted

\* The step appends a Heartbeat frame to the wire.
HeartbeatWritten ==
    /\ Len(wire') = Len(wire) + 1
    /\ wire'[Len(wire')].msg = HeartbeatMsg

IsStdinCmd(f) ==
    f.task = "main" /\ f.msg.type = "cmd" /\ f.msg # CmdMsg(TermExport)

\* ------------------------------------------------------------------- claims

\* C1: at most one goroutine is inside the transport write of the shared
\* Connection at any time, and every frame on the wire is one whole message.
C1_SendMutualExclusion == Cardinality(inWrite) <= 1 /\ ~garbled

\* C2: when the receive of the output pump fails while the session is Active,
\* the process does not exit before the terminal mode is restored and the
\* reset sequence is emitted.
C2_RecvFailureRestoresTerminal ==
    (/\ exitKind = "recv_error"
     /\ closeCalls = 0
     /\ pc["main"] \notin {"defer_restore", "defer_close"})
        => TerminalRestored

\* C3: after the force-quit sequence was read, the process never exits with
\* the terminal still in raw mode or without the reset sequence.
C3_ForceQuitRestoresTerminal ==
    (proc = "exited" /\ ForceQuitTaken) => TerminalRestored

\* C4: a read that returns exactly the force-quit sequence closes the
\* Connection (the session is Closing) and no Cmd carrying that block is
\* handed to SendJSON or written to the wire.
C4_ForceQuitSendsNothing ==
    /\ \A i \in DOMAIN wire : wire[i].msg # CmdMsg(F12)
    /\ msg["main"] # CmdMsg(F12)
    /\ (pc["main"] = "f12_close" => msg["main"] = NoMsg /\ "main" \notin inWrite)
    /\ (ForceQuitTaken => connState = "closed" /\ SessionState \in {"Closing", "Closed"})

C4_Witness == ForceQuitTaken /\ Running /\ SessionState = "Closing"

\* C5: a failed dial ends the process with a connect error, with the terminal
\* mode never changed and no frame sent; raw mode implies a successful dial.
C5_DialFailureTouchesNothing ==
    /\ exitKind = "connect_error" =>
          /\ termMode = "cooked"
          /\ modeChanges = 0
          /\ wire = <<>>
          /\ inWrite = {}
          /\ \A t \in Senders : msg[t] = NoMsg
    /\ termMode = "raw" => connState # "none"

C5_Witness == proc = "exited" /\ exitKind = "connect_error"

\* C6: a Heartbeat frame is never written less than the heartbeat interval
\* after a Cmd or Resize frame.
C6_HeartbeatSuppressed ==
    [][HeartbeatWritten => otherAge >= HeartbeatInterval]_vars

\* C7: in an idle session a poll sends a Heartbeat exactly when the time since
\* the last send exceeds the interval, the clock is refreshed after the send,
\* and two Heartbeat frames are always more than one interval apart.
C7_IdleHeartbeatOncePerInterval ==
    [][/\ HeartbeatWritten => hbAge > HeartbeatInterval
       /\ (pc["hb"] = "wait" /\ due["hb"] /\ ~due'["hb"]) =>
             (pc'["hb"] = "writing" <=> timeSinceLastSend > HeartbeatInterval)
       /\ (pc["hb"] = "update" /\ pc'["hb"] = "wait") => timeSinceLastSend' = 0
      ]_vars

C7_Witness ==
    /\ ~garbled
    /\ \E i, j \in DOMAIN wire :
          i < j /\ wire[i].msg = HeartbeatMsg /\ wire[j].msg = HeartbeatMsg

C9_SendFailureLeavesActive ==
    \A t \in Senders :
        (t \in sendFailed /\ SessionState = "Active") => pc[t] # "writing"

IsLine(f, c) == f.msg = CmdMsg([line |-> c])
IsSegment(f) == f.msg.type = "cmd" /\ DOMAIN f.msg.cmd = {"from", "to", "text"}
IsHandshake(f) == IsLine(f, "cat <<'__EOF' |base64 --decode |gunzip > fileName")
IsTerminator(f) == IsLine(f, "__EOF")
IsSttyLine(f) ==
    \E c \in {"stty -echo", "stty -icanon", "stty -isig", "stty -iexten",
              "stty -echoctl", "stty -echoke", "stty -echoprt", "stty -echoe",
              "stty -echonl"} : IsLine(f, c)
TransferSent == wpc \in {"recv", "defer_close", "done"}

CeilSegments(L) ==
    CHOOSE n \in 0..L : n * 256 >= L /\ (n = 0 \/ (n - 1) * 256 < L)
LastSegmentLen(L) == IF L % 256 = 0 THEN 256 ELSE L % 256
Segments == SelectSeq(wire, IsSegment)

\* C13: the segments sent for a blob of length L start at 0, 256, 512, ...;
\* each has 256 bytes except segment number ceil(L/256), which has L mod 256
\* bytes (256 when that is 0); none is empty; when sendEncodedData has
\* returned there are exactly ceil(L/256) of them, none for L = 0.
C13_Chunking ==
    /\ \A k \in DOMAIN Segments :
          /\ k <= CeilSegments(encodedLen)
          /\ Segments[k].msg.cmd.from = (k - 1) * 256
          /\ Segments[k].msg.cmd.to - Segments[k].msg.cmd.from =
                (IF k < CeilSegments(encodedLen) THEN 256
                 ELSE LastSegmentLen(encodedLen))
          /\ Segments[k].msg.cmd.to > Segments[k].msg.cmd.from
    /\ wpc = "endmarker" => Len(Segments) = CeilSegments(encodedLen)

C13_Witness ==
    /\ wpc = "endmarker"
    /\ encodedLen = 2 * 256
    /\ Len(Segments) = 2

PastSizeGate == wpc \notin {"stat", "gate"}

C15_SizeOverride ==
    /\ (force /\ fileSize > 32768) =>
          /\ exitKind # "too_large"
          /\ PastSizeGate => warned
    /\ warned => (fileSize > 32768 /\ force /\ PastSizeGate)

C15_Witness ==
    /\ warned
    /\ force
    /\ fileSize = 32769
    /\ dials = 1
    /\ connState = "open"

C17_TransferAbort ==
    [][/\ "main" \in sendFailed' =>
             /\ proc' = "exited"
             /\ exitKind' \in {"setup_error", "transfer_error"}
       /\ "main" \in sendFailed => (issued' = issued /\ wire' = wire)
      ]_vars

C17_Witness ==
    /\ "main" \in sendFailed
    /\ exitKind = "transfer_error"
    /\ \E i \in DOMAIN wire : IsSegment(wire[i])

BeginsWithScheme(a) ==
    \/ Len(a) >= 5 /\ SubSeq(a, 1, 5) = <<"w", "s", ":", "/", "/">>
    \/ Len(a) >= 6 /\ SubSeq(a, 1, 6) = <<"w", "s", "s", ":", "/", "/">>

\* C18: when the argument begins with ws:// or wss://, IsURL is true of it
\* and runWSH gets past the resolution with the argument itself as the target
\* URL, without a lookup in the config.
C18_DirectURLArgument ==
    (BeginsWithScheme(arg) /\ (pc["main"] # "resolve" \/ proc = "exited")) =>
        /\ IsURL(arg)
        /\ targetURL = arg
        /\ lookups = 0
        /\ exitKind \notin {"config_error", "no_endpoint"}

\* C19: for every file, the remote pipeline (base64 decoding, then gunzip)
\* applied to the text encodeFile returns succeeds and gives back the bytes
\* of the file.
C19_EncodingRoundTrip ==
    wpc = "enc_done" => remoteFile = [ok |-> TRUE, data |-> fileData]

C19_Witness ==
    /\ wpc = "enc_done"
    /\ Len(fileData) = 2
    /\ encoder.out[Len(encoder.out)] = "="
    /\ remoteFile.ok

\* C20: a goroutine whose send returned an error leaves the liveness clock as
\* it is when it goes on from that send.
C20_ClockRecordsSuccessfulSend ==
    [][\A t \in Senders :
          (t \in sendFailed /\ pc[t] = "update" /\ pc'[t] # "update") =>
              timeSinceLastSend' = timeSinceLastSend
      ]_vars

\* C10: every Cmd carrying stdin bytes follows, on the wire, the initial Resize
\* of runWSH and then its TERM export; no stdin Cmd is handed to SendJSON
\* before runWSH has passed both.
C10_BaselineBeforeInput ==
    /\ \A k \in DOMAIN wire :
          IsStdinCmd(wire[k]) =>
              \E i, j \in DOMAIN wire :
                  /\ i < j /\ j < k
                  /\ wire[i].task = "main" /\ wire[i].msg.type = "resize"
                  /\ wire[j] = Frame("main", CmdMsg(TermExport))
    /\ (msg["main"].type = "cmd" /\ msg["main"] # CmdMsg(TermExport)) =>
          stage = "input"

C10_Witness == \E k \in DOMAIN wire : IsStdinCmd(wire[k])

\* the statements between Lock and Unlock; "store" and "since" are the ones
\* about to write and to read lastSendTime
InCriticalSection(t) == pc[t] \in {"now", "store", "unlock", "since", "read_unlock"}
AboutToAccessClock(t) == pc[t] \in {"store", "since"}

\* C21: a goroutine that is about to write or read lastSendTime, or is anywhere
\* between Lock and Unlock, holds lastSendMutex; at most one goroutine is
\* there at a time; lastSendTime never decreases.
C21_ClockUnderLock ==
    /\ [](\A t \in Tasks : InCriticalSection(t) => mutex = t)
    /\ [](Cardinality({t \in Tasks : AboutToAccessClock(t)}) <= 1)
    /\ [][lastSendTime' >= lastSendTime]_vars

C21_Witness ==
    /\ pc["hb"] = "since"
    /\ mutex = "hb"
    /\ pc["main"] = "update"
    /\ pc["sig"] = "update"
    /\ lastSendTime = 2
    /\ now = 3

\* the Resize frames of the resize watcher, in the order they were written
WatcherFrames == SelectSeq(wire, LAMBDA f : f.task = "watch")

\* C22: a poll of the resize watcher sends a Resize with the polled size
\* exactly when term.GetSize succeeded and the size differs from the cached
\* one; after the send the cache holds the polled size and the clock is
\* refreshed; a poll with the size unchanged sends nothing and leaves cache,
\* clock and wire as they are; the cache changes nowhere else; two Resize
\* sends of the watcher that follow one another never carry the same size.
C22_ResizeWatcher ==
    /\ [][/\ (pc["watch"] = "wait" /\ due["watch"] /\ ~due'["watch"]) =>
               IF stdoutTTY /\ (geom[1] # lastGeom[1] \/ geom[2] # lastGeom[2])
                 THEN /\ pc'["watch"] = "writing"
                      /\ msg'["watch"] = ResizeMsg(geom[2], geom[1])
                      /\ issued'["watch"] = issued["watch"] + 1
                 ELSE /\ pc'["watch"] = "wait"
                      /\ issued' = issued
                      /\ lastGeom' = lastGeom
                      /\ timeSinceLastSend' = timeSinceLastSend
                      /\ wire' = wire
          /\ (pc["watch"] = "update" /\ pc'["watch"] = "wait") =>
                /\ lastGeom' = <<msg["watch"].cols, msg["watch"].rows>>
                /\ timeSinceLastSend' = 0
          /\ lastGeom' # lastGeom => pc["watch"] = "update"
         ]_vars
    /\ [](/\ \A i \in 1..(Len(WatcherFrames) - 1) :
                WatcherFrames[i].msg # WatcherFrames[i + 1].msg
          /\ (pc["watch"] = "writing" /\ WatcherFrames # <<>>) =>
                msg["watch"] # WatcherFrames[Len(WatcherFrames)].msg)

C22_Witness ==
    /\ Len(WatcherFrames) = 3
    /\ WatcherFrames[1].msg = ResizeMsg(24, 80)
    /\ WatcherFrames[2].msg = ResizeMsg(30, 100)
    /\ WatcherFrames[3].msg = ResizeMsg(24, 80)
    /\ pc["watch"] = "wait"
    /\ ~due["watch"]
    /\ lastGeom = geom
    /\ timeSinceLastSend = Cap

\* C23: every signal the OS delivers in an Active session is translated: none
\* is lost, unless one of its own kind is still waiting; a SIGINT taken from the channel becomes one SendJSON of a Cmd with
\* the single byte 3, a SIGWINCH one SendJSON of a Resize; the signal
\* goroutine refreshes the clock after the send, and no step of the signal
\* goroutine takes the session out of Active.
C23_SignalTranslation ==
    /\ [](\A l \in lost : l.sig = l.behind)
    /\ [][/\ (sigs # "none" /\ sigs' = "none") =>
                /\ issued'["sig"] = issued["sig"] + 1
                /\ IF sigs = "SIGINT"
                     THEN msg'["sig"] = [type |-> "cmd", cmd |-> <<3>>]
                     ELSE msg'["sig"].type = "resize"
          /\ (pc["sig"] = "update" /\ pc'["sig"] = "wait") =>
                timeSinceLastSend' = 0
          /\ (pc["sig"] # pc'["sig"] /\ SessionState = "Active") =>
                SessionState' = "Active"
         ]_vars

Rank(st) ==
    IF st = "Connecting" THEN 0 ELSE IF st = "Active" THEN 1
    ELSE IF st = "Closing" THEN 2 ELSE 3

\* C24: no step takes the session to an earlier state of Connecting, Active,
\* Closing, Closed; nothing changes once the process is gone; a Connection
\* that was closed or has failed is never open again; a session that is
\* Closing eventually is Closed.
C24_LinearLifecycle ==
    /\ [][/\ Rank(SessionState') >= Rank(SessionState)
          /\ SessionState # "Closed"
          /\ connState # "none" => connState' # "none"
          /\ connState \in {"broken", "closed"} => connState' # "open"
         ]_vars
    /\ (SessionState = "Closing") ~> (SessionState = "Closed")

C24_Witness ==
    /\ SessionState = "Closed"
    /\ exitKind = "returned"
    /\ closeCalls = 1
    /\ termMode = "cooked"
    /\ connState = "closed"

\* C25: a read of a block other than the force-quit sequence hands SendJSON
\* exactly one Cmd, and what goes out as its payload are the bytes of the
\* block; the session is Active after the read; the clock is refreshed when
\* runWSH goes on from the send.
C25_InputForwarded ==
    [][/\ (/\ pc["main"] = "read"
           /\ pc'["main"] \notin {"read", "defer_restore"}
           /\ buf' # F12) =>
             /\ issued'["main"] = issued["main"] + 1
             /\ pc'["main"] = "writing"
             /\ msg'["main"] = [type |-> "cmd", cmd |-> buf']
             /\ SessionState' = "Active"
       /\ (pc["main"] = "update" /\ pc'["main"] = "read") =>
             timeSinceLastSend' = 0
      ]_vars

\* C26: a handshake Cmd is on the wire only when encodeFile has returned the
\* encoded text; when the transfer ends because the file could not be read or
\* encoded, no handshake Cmd was sent.
C26_EncodeBeforeHandshake ==
    /\ (\E i \in DOMAIN wire : IsHandshake(wire[i])) => encodedLen >= 0
    /\ (exitKind = "transfer_error" /\ "main" \notin sendFailed) =>
          \A i \in DOMAIN wire : ~IsHandshake(wire[i])

\* C27: a process ended by a termination signal leaves the terminal in the
\* mode it had before the session, not in raw mode.
C27_TerminationRestoresTerminal ==
    exitKind = "terminated" => termMode = "cooked"

\* the payload of a segment Cmd without its last character
SliceOf(f) == SubSeq(f.msg.cmd.text, 1, Len(f.msg.cmd.text) - 1)

RECURSIVE Joined(_)
\* the slices of the segments, one after the other
Joined(segs) ==
    IF segs = <<>> THEN <<>> ELSE SliceOf(Head(segs)) \o Joined(Tail(segs))

\* C28: the payload of every segment Cmd ends in a line break and has no
\* other, and what precedes it is a slice of the encoded text, not empty,
\* that begins where the slice of the segment before ended; the slices of
\* the segments sent so far, joined in send order, are the beginning of the
\* encoded text, and when sendEncodedData has returned they are the whole of
\* it.
C28_SegmentReassembly ==
    /\ \A k \in DOMAIN Segments :
          LET text == Segments[k].msg.cmd.text IN
            /\ text # <<>>
            /\ text[Len(text)] = "\n"
            /\ \A i \in 1..(Len(text) - 1) : text[i] # "\n"
            /\ SliceOf(Segments[k]) # <<>>
            /\ SliceOf(Segments[k]) =
                  SubSeq(encodedData, Len(Joined(SubSeq(Segments, 1, k - 1))) + 1,
                         Len(Joined(SubSeq(Segments, 1, k))))
    /\ Len(Joined(Segments)) <= Len(encodedData)
    /\ Joined(Segments) = SubSeq(encodedData, 1, Len(Joined(Segments)))
    /\ wpc = "endmarker" => Joined(Segments) = encodedData

C28_Witness ==
    /\ wpc = "endmarker"
    /\ Len(encodedData) = 300
    /\ Len(Segments) = 2
    /\ Len(SliceOf(Segments[2])) = 44
    /\ Joined(Segments) = encodedData

\* C29: the delayed close has been started only when the transfer went
\* through: main is past transferFile, no send has failed, and the wire holds
\* the handshake, the terminator and after it the two cleanup commands; so no
\* frame is left to send, and a failed transfer has no delayed close. The
\* delayed close is the only Close before main returns.
C29_CloserAfterTransfer ==
    /\ closer # "off" =>
          /\ TransferSent
          /\ "main" \notin sendFailed
          /\ exitKind \notin {"setup_error", "transfer_error"}
          /\ \E h, e \in DOMAIN wire :
                /\ h < e
                /\ IsHandshake(wire[h])
                /\ IsTerminator(wire[e])
                /\ Len(wire) = e + 2
                /\ IsLine(wire[e + 1], "reset")
                /\ IsLine(wire[e + 2], "echo 'it works'")
          /\ Len(Segments) * 256 >= encodedLen
    /\ (closeCalls > 0 /\ wpc \notin {"defer_close", "done"}) => closer = "done"
    /\ exitKind \in {"setup_error", "transfer_error"} =>
          (closer = "off" /\ closeCalls = 0)

C29_Witness ==
    /\ closer = "sleeping"
    /\ wpc = "recv"
    /\ connState = "open"
    /\ Len(Segments) = 2
    /\ IsLine(wire[Len(wire)], "echo 'it works'")

====
